---- MODULE Spec2Model ----
(***************************************************************************)
(* Model of starstream_sys (src/starstream_sys/src/lib.rs): the guest-side *)
(* bindings of the suspension protocol (sleep / Utxo::status / resume /    *)
(* next) and of the linear-resource protocol (Token::mint / burn), run     *)
(* against the host functions they import.  The host functions are extern  *)
(* declarations in the source; their behaviour is taken from the written   *)
(* specification.                                                          *)
(***************************************************************************)
EXTENDS Integers, Sequences, FiniteSets, TLC

\* ------------------------------------------------------------------------
\* Bounds

MaxUnits == 2
MaxCallers == 2
MaxSuspends == 2
MaxByte == 1
MaxTokens == 2
MaxSlots == 2

Handles == 1..MaxUnits
Callers == 1..MaxCallers
ByteVals == 0..MaxByte
Slots == 1..MaxSlots
Ptrs == 1..MaxTokens

\* ------------------------------------------------------------------------
\* Model types

\* #[repr(C)] enum UtxoStatus { Returned = 0, Yielded = 1 }
Returned == 0
Yielded == 1
UtxoStatus == {Returned, Yielded}

\* UtxoStatus::can_resume: matches!(self, UtxoStatus::Yielded)
UtxoStatus_can_resume_inverted(s) == s = Returned

UtxoStatus_can_resume(s) == s = Yielded

\* The types the generic parameters Resume and Yield of sleep, and the
\* $resume_ty of utxo_import!, are instantiated with.
Types == {"Unit", "U8", "I8"}

\* core::mem::size_of::<T>()
size_of(t) == CASE t = "Unit" -> 0
                [] t = "U8" -> 1
                [] t = "I8" -> 1

\* core::any::type_name::<T>()
type_name(t) == CASE t = "Unit" -> "()"
                  [] t = "U8" -> "u8"
                  [] t = "I8" -> "i8"

BytesOfLen(n) == [1..n -> ByteVals]

\* The values of type t: a type tag the compiler knows and the bytes in
\* memory.  Only the bytes cross the boundary.
ValuesOf(t) == {[ty |-> t, bytes |-> b] : b \in BytesOfLen(size_of(t))}

\* core::mem::size_of_val(&arg)
size_of_val(v) == size_of(v.ty)

\* MaybeUninit::<Resume>::assume_init(): the buffer's bytes read as a Resume.
assume_init(t, buf) == [ty |-> t, bytes |-> buf]

\* #[repr(C)] struct PublicKey { _0: () }: the type has one value.
PublicKeys == {[field0 |-> <<>>]}

NoFrame == <<>>

NoCall == [op |-> "none", h |-> 0, out |-> "none", ret |-> <<>>]

\* ------------------------------------------------------------------------
\* State

VARIABLES
    unitStatus,     \* host: status of every unit handle it has created
    pendingYield,   \* host: the yield it read at the unit's last suspension
    unitPc,         \* guest unit: "new", "running", "sleeping", "returned",
                    \* "aborted", "looping"
    frame,          \* guest unit: the sleep call it is blocked in
    resumed,        \* guest unit: what the sleep call it continues from returned
    suspends,       \* number of sleep calls made so far, by all units
    sleeps,         \* guest unit: number of sleep calls it has made
    trace,          \* host: the status of the unit each time it stopped running
    running,        \* the unit that has control (0: the coordination side)
    resume_ty,      \* utxo_import!: the $resume_ty the unit type is imported with
    callerPc,       \* coordination script: "ready", "in_resume", "aborted",
                    \* "looping"
    inResume,       \* coordination script: the handle it is resuming (0: none)
    supplied,       \* the argument of the resume call in progress on each handle
    lastCall,       \* the last call made through the import bindings
    tokens,         \* host: the storage of every live token, by handle ptr
    nextPtr,        \* host: the next token handle ptr
    held,           \* guest: the TokenHandle in each variable (0: none)
    minted,         \* the intermediate every handle ptr was minted from
    burns,          \* number of burns the host performed for each handle ptr
    logic,          \* token_export!: the domain logic of the resource type
    panicked        \* the guest instances whose panic handler has run

unitVars == <<unitStatus, pendingYield, unitPc, frame, resumed, suspends, sleeps,
             trace, running>>
callerVars == <<callerPc, inResume, supplied>>
tokenVars == <<tokens, nextPtr, held, minted, burns>>
vars == <<unitStatus, pendingYield, unitPc, frame, resumed, suspends, sleeps,
          trace, running,
          resume_ty, callerPc, inResume, supplied, lastCall,
          tokens, nextPtr, held, minted, burns, logic, panicked>>

Created == DOMAIN unitStatus

Min(a, b) == IF a < b THEN a ELSE b

Call(op, h, out, ret) == [op |-> op, h |-> h, out |-> out, ret |-> ret]

\* ------------------------------------------------------------------------
\* Common environment

\* env::abort, reached from a host function that rejects the call of guest
\* instance c: the instance is torn down and the call does not return.
abort(c) ==
    /\ callerPc' = [callerPc EXCEPT ![c] = "aborted"]
    /\ inResume' = [inResume EXCEPT ![c] = 0]

\* A host that gives control back to the resumer of h but keeps its resume
\* of h open.
ReturnToResumer_forgetful(h) ==
    /\ running' = 0
    /\ callerPc' = [c \in Callers |->
                      IF inResume[c] = h /\ callerPc[c] = "in_resume"
                      THEN "ready" ELSE callerPc[c]]
    /\ inResume' = inResume

\* Control goes back to the coordination script blocked in a resume of h, if
\* there is one (the first run of a unit is started by the host itself).
ReturnToResumer(h) ==
    /\ running' = 0
    /\ callerPc' = [c \in Callers |->
                      IF inResume[c] = h /\ callerPc[c] = "in_resume"
                      THEN "ready" ELSE callerPc[c]]
    /\ inResume' = [c \in Callers |-> IF inResume[c] = h THEN 0 ELSE inResume[c]]

\* A panic handler that returns to the code that panicked when abort
\* returns.
panic_handler_returning(pc, abort_returns) ==
    IF abort_returns THEN pc ELSE "aborted"

\* #[panic_handler] fn panic_handler(_: &PanicInfo) -> !: abort(); loop {}.
\* Where the guest instance that panicked at pc is afterwards: torn down by
\* the host, or, if abort() returned, in the loop for ever.
panic_handler(pc, abort_returns) ==
    IF abort_returns THEN "looping" ELSE "aborted"

\* Guest logic of unit h panics.  A unit the host tears down loses its
\* memory, and while a coordination script is blocked in a resume of it, it
\* takes that script with it: the resume call has nothing to return.
panic_in_unit(h, abort_returns) ==
    /\ running = h
    /\ unitPc[h] = "running"
    /\ unitPc' = [unitPc EXCEPT ![h] = panic_handler(@, abort_returns)]
    /\ panicked' = panicked \cup {<<"unit", h>>}
    /\ IF abort_returns
       THEN UNCHANGED <<running, callerPc, inResume, resumed, supplied>>
       ELSE /\ running' = 0
            /\ resumed' = [resumed EXCEPT ![h] = <<>>]
            /\ supplied' = [supplied EXCEPT ![h] = <<>>]
            /\ callerPc' = [c \in Callers |->
                              IF inResume[c] = h THEN "aborted" ELSE callerPc[c]]
            /\ inResume' = [c \in Callers |->
                              IF inResume[c] = h THEN 0 ELSE inResume[c]]
    /\ UNCHANGED <<unitStatus, pendingYield, frame, suspends, sleeps, trace,
                   resume_ty, lastCall, tokenVars, logic>>

\* Guest logic of coordination script c panics.
panic_in_script(c, abort_returns) ==
    /\ running = 0
    /\ callerPc[c] = "ready"
    /\ callerPc' = [callerPc EXCEPT ![c] = panic_handler(@, abort_returns)]
    /\ panicked' = panicked \cup {<<"script", c>>}
    /\ UNCHANGED <<unitVars, resume_ty, inResume, supplied, lastCall, tokenVars,
                   logic>>

\* A check that is not implemented yet: todo!() panics.
assert_tx_signed_by_todo(c, key) ==
    /\ running = 0
    /\ callerPc[c] = "ready"
    /\ callerPc' = [callerPc EXCEPT ![c] = "aborted"]
    /\ lastCall' = Call("assert_tx_signed_by", 0, "abort", <<>>)
    /\ UNCHANGED <<unitVars, resume_ty, inResume, supplied, tokenVars, logic,
                   panicked>>

\* assert_tx_signed_by(_key: PublicKey), called by coordination script c: the
\* body is empty.
assert_tx_signed_by(c, key) ==
    /\ running = 0
    /\ callerPc[c] = "ready"
    /\ lastCall' = Call("assert_tx_signed_by", 0, "ok", <<>>)
    /\ UNCHANGED <<unitVars, resume_ty, callerVars, tokenVars, logic, panicked>>

\* ------------------------------------------------------------------------
\* UTXO export (main/implementation) environment

\* The host starts unit h: its code runs until it first suspends or finishes.
host_start(h) ==
    /\ running = 0
    /\ unitPc[h] = "new"
    /\ unitPc' = [unitPc EXCEPT ![h] = "running"]
    /\ running' = h
    /\ UNCHANGED <<unitStatus, pendingYield, frame, resumed, suspends, sleeps, trace,
                   resume_ty, callerVars, lastCall, tokenVars, logic, panicked>>

\* starstream_utxo_env::starstream_yield: the host reads data_size bytes of
\* yield data under the channel name, marks the unit Yielded and gives
\* control back to whoever resumed it.
starstream_yield(h, name, name_len, data, data_size, resume_arg_size) ==
    /\ pendingYield' = [pendingYield EXCEPT ![h] =
            <<[name |-> name, name_len |-> name_len,
               data |-> SubSeq(data, 1, data_size),
               resume_arg_size |-> resume_arg_size]>>]
    /\ unitStatus' = (h :> Yielded) @@ unitStatus
    /\ trace' = [trace EXCEPT ![h] = Append(@, Yielded)]
    /\ ReturnToResumer(h)

\* A sleep that passes size_of::<Yield>() for both sizes.
sleep_one_size(h, Resume, Yield, data) ==
    /\ running = h
    /\ unitPc[h] = "running"
    /\ suspends < MaxSuspends
    /\ data.ty = Yield
    /\ LET name == type_name(Yield) IN
        /\ frame' = [frame EXCEPT ![h] =
                <<[Yield |-> Yield, Resume |-> Resume, data |-> data]>>]
        /\ unitPc' = [unitPc EXCEPT ![h] = "sleeping"]
        /\ suspends' = suspends + 1
        /\ sleeps' = [sleeps EXCEPT ![h] = @ + 1]
        /\ resumed' = [resumed EXCEPT ![h] = <<>>]
        /\ supplied' = [supplied EXCEPT ![h] = <<>>]
        /\ starstream_yield(h, name, Len(name), data.bytes, size_of(Yield),
                            size_of(Yield))
    /\ UNCHANGED <<resume_ty, lastCall, tokenVars, logic, panicked>>

\* A sleep that returns without calling starstream_yield: the unit goes on
\* with whatever its resume_arg buffer held.
sleep_without_yield(h, Resume, Yield, data) ==
    /\ running = h
    /\ unitPc[h] = "running"
    /\ suspends < MaxSuspends
    /\ data.ty = Yield
    /\ suspends' = suspends + 1
    /\ sleeps' = [sleeps EXCEPT ![h] = @ + 1]
    /\ \E buf \in BytesOfLen(size_of(Resume)) :
           resumed' = [resumed EXCEPT ![h] = <<assume_init(Resume, buf)>>]
    /\ UNCHANGED <<unitStatus, pendingYield, unitPc, frame, trace, running,
                   resume_ty, callerVars, lastCall, tokenVars, logic, panicked>>

\* sleep::<Resume, Yield>(data), up to the point where starstream_yield
\* blocks: the unit is frozen inside the call with an uninitialised
\* resume_arg buffer of size_of::<Resume>() bytes.
sleep(h, Resume, Yield, data) ==
    /\ running = h
    /\ unitPc[h] = "running"
    /\ suspends < MaxSuspends
    /\ data.ty = Yield
    /\ LET name == type_name(Yield) IN
        /\ frame' = [frame EXCEPT ![h] =
                <<[Yield |-> Yield, Resume |-> Resume, data |-> data]>>]
        /\ unitPc' = [unitPc EXCEPT ![h] = "sleeping"]
        /\ suspends' = suspends + 1
        /\ sleeps' = [sleeps EXCEPT ![h] = @ + 1]
        /\ resumed' = [resumed EXCEPT ![h] = <<>>]
        /\ supplied' = [supplied EXCEPT ![h] = <<>>]
        /\ starstream_yield(h, name, Len(name), data.bytes, size_of(Yield),
                            size_of(Resume))
    /\ UNCHANGED <<resume_ty, lastCall, tokenVars, logic, panicked>>

\* A sleep_mut that hands the reference itself to sleep: Yield is inferred
\* as &mut Yield, a 4-byte pointer on wasm32.
sleep_mut_of_reference(h, Resume, Yield, data) ==
    /\ running = h
    /\ unitPc[h] = "running"
    /\ suspends < MaxSuspends
    /\ data.ty = Yield
    /\ LET name == "&mut " \o type_name(Yield) IN
        /\ frame' = [frame EXCEPT ![h] =
                <<[Yield |-> Yield, Resume |-> Resume, data |-> data]>>]
        /\ unitPc' = [unitPc EXCEPT ![h] = "sleeping"]
        /\ suspends' = suspends + 1
        /\ sleeps' = [sleeps EXCEPT ![h] = @ + 1]
        /\ resumed' = [resumed EXCEPT ![h] = <<>>]
        /\ supplied' = [supplied EXCEPT ![h] = <<>>]
        /\ starstream_yield(h, name, Len(name), <<0, 0, 0, 0>>, 4, size_of(Resume))
    /\ UNCHANGED <<resume_ty, lastCall, tokenVars, logic, panicked>>

\* sleep_mut::<Resume, Yield>(data: &mut Yield): sleep(data)
sleep_mut(h, Resume, Yield, data) == sleep(h, Resume, Yield, data)

\* A sleep whose buffer is a MaybeUninit::<Yield>.
sleep_return_as_yield(h, buf) ==
    /\ resumed' = [resumed EXCEPT ![h] = <<assume_init(frame[h][1].Yield, buf)>>]
    /\ frame' = [frame EXCEPT ![h] = NoFrame]
    /\ unitPc' = [unitPc EXCEPT ![h] = "running"]
    /\ running' = h

\* The rest of sleep, after starstream_yield has returned with buf in the
\* resume_arg buffer: resume_arg.assume_init() is what sleep returns.
sleep_return(h, buf) ==
    /\ resumed' = [resumed EXCEPT ![h] = <<assume_init(frame[h][1].Resume, buf)>>]
    /\ frame' = [frame EXCEPT ![h] = NoFrame]
    /\ unitPc' = [unitPc EXCEPT ![h] = "running"]
    /\ running' = h

\* The unit's code runs to its end: the host marks the unit Returned, with
\* no further values, and gives control back to whoever resumed it.
unit_return(h) ==
    /\ running = h
    /\ unitPc[h] = "running"
    /\ unitPc' = [unitPc EXCEPT ![h] = "returned"]
    /\ unitStatus' = (h :> Returned) @@ unitStatus
    /\ trace' = [trace EXCEPT ![h] = Append(@, Returned)]
    /\ resumed' = [resumed EXCEPT ![h] = <<>>]
    /\ supplied' = [supplied EXCEPT ![h] = <<>>]
    /\ ReturnToResumer(h)
    /\ UNCHANGED <<pendingYield, frame, suspends, sleeps, resume_ty,
                   lastCall, tokenVars, logic, panicked>>

\* ------------------------------------------------------------------------
\* UTXO import (lib) interface

\* $status_fn(utxo): the host's record of the unit's status.
status_fn(h) == unitStatus[h]

\* The host has a suspension of unit h to continue from.
host_can_resume(h) == unitStatus[h] = Yielded /\ unitPc[h] = "sleeping"

\* A host that runs a Returned unit again.
resume_fn_reviving(c, h, resume_arg, resume_arg_size) ==
    IF unitStatus[h] = Returned
    THEN /\ unitStatus' = [unitStatus EXCEPT ![h] = Yielded]
         /\ lastCall' = Call("resume", h, "started", <<resume_arg_size>>)
         /\ UNCHANGED <<pendingYield, unitPc, frame, resumed, suspends, sleeps,
                        trace, running, callerPc, inResume>>
    ELSE IF ~host_can_resume(h)
    THEN /\ abort(c)
         /\ lastCall' = Call("resume", h, "abort", <<resume_arg_size>>)
         /\ UNCHANGED <<unitStatus, pendingYield, unitPc, frame, resumed, suspends,
                        sleeps, trace, running>>
    ELSE LET buf_size == pendingYield[h][1].resume_arg_size
             n == Min(resume_arg_size, buf_size)
         IN  /\ \E rest \in BytesOfLen(buf_size - n) :
                    sleep_return(h, SubSeq(resume_arg, 1, n) \o rest)
             /\ callerPc' = [callerPc EXCEPT ![c] = "in_resume"]
             /\ inResume' = [inResume EXCEPT ![c] = h]
             /\ lastCall' = Call("resume", h, "started", <<resume_arg_size>>)
             /\ pendingYield' = [pendingYield EXCEPT ![h] = <<>>]
             /\ UNCHANGED <<unitStatus, suspends, sleeps, trace>>

\* $resume_fn(utxo, resume_arg, resume_arg_size), called by coordination
\* script c.  A Returned unit cannot be resumed, nor can one that was torn
\* down: the call is fatal for the caller.  Otherwise the host copies the resume data into the resume_arg
\* buffer the unit gave to starstream_yield and the unit continues from that
\* call.  The sizes are not compared: bytes of the buffer the copy does not
\* reach keep whatever they held.
resume_fn(c, h, resume_arg, resume_arg_size) ==
    IF ~host_can_resume(h)
    THEN /\ abort(c)
         /\ lastCall' = Call("resume", h, "abort", <<resume_arg_size>>)
         /\ UNCHANGED <<unitStatus, pendingYield, unitPc, frame, resumed, suspends,
                        sleeps, trace, running>>
    ELSE LET buf_size == pendingYield[h][1].resume_arg_size
             n == Min(resume_arg_size, buf_size)
         IN  /\ \E rest \in BytesOfLen(buf_size - n) :
                    sleep_return(h, SubSeq(resume_arg, 1, n) \o rest)
             /\ callerPc' = [callerPc EXCEPT ![c] = "in_resume"]
             /\ inResume' = [inResume EXCEPT ![c] = h]
             /\ lastCall' = Call("resume", h, "started", <<resume_arg_size>>)
             /\ pendingYield' = [pendingYield EXCEPT ![h] = <<>>]
             /\ UNCHANGED <<unitStatus, suspends, sleeps, trace>>

\* A status binding wired to $resume_fn.
Utxo_status_resuming(c, h) ==
    /\ running = 0
    /\ callerPc[c] = "ready"
    /\ h \in Created
    /\ supplied' = [supplied EXCEPT ![h] = <<>>]
    /\ resume_fn(c, h, <<>>, 0)
    /\ UNCHANGED <<resume_ty, tokenVars, logic, panicked>>

\* <$name as Utxo>::status(self)
Utxo_status(c, h) ==
    /\ running = 0
    /\ callerPc[c] = "ready"
    /\ h \in Created
    /\ lastCall' = Call("status", h, "ok", <<status_fn(h)>>)
    /\ UNCHANGED <<unitVars, resume_ty, callerPc, inResume, supplied, tokenVars, logic, panicked>>

\* Utxo::can_resume(self): self.status().can_resume()
Utxo_can_resume(c, h) ==
    /\ running = 0
    /\ callerPc[c] = "ready"
    /\ h \in Created
    /\ lastCall' = Call("can_resume", h, "ok",
                        <<UtxoStatus_can_resume(status_fn(h))>>)
    /\ UNCHANGED <<unitVars, resume_ty, callerPc, inResume, supplied, tokenVars, logic, panicked>>

\* A resume binding that returns without calling the host when the unit
\* cannot be resumed.
Utxo_resume_skipping(c, h, arg) ==
    /\ running = 0
    /\ callerPc[c] = "ready"
    /\ h \in Created
    /\ arg.ty = resume_ty
    /\ IF UtxoStatus_can_resume(status_fn(h))
       THEN /\ supplied' = [supplied EXCEPT ![h] = <<arg>>]
            /\ resume_fn(c, h, arg.bytes, size_of_val(arg))
       ELSE /\ lastCall' = Call("resume", h, "ignored", <<>>)
            /\ UNCHANGED <<unitVars, callerVars>>
    /\ UNCHANGED <<resume_ty, tokenVars, logic, panicked>>

\* A resume binding that passes a handle other than self.0.
Utxo_resume_any_handle(c, h, arg) ==
    /\ running = 0
    /\ callerPc[c] = "ready"
    /\ h \in Created
    /\ arg.ty = resume_ty
    /\ supplied' = [supplied EXCEPT ![h] = <<arg>>]
    /\ \E g \in Created : resume_fn(c, g, arg.bytes, size_of_val(arg))
    /\ UNCHANGED <<resume_ty, tokenVars, logic, panicked>>

\* <$name as Utxo>::resume(self, arg): $resume_fn(self.0, &raw const arg,
\* size_of_val(&arg)), whatever the unit's status.
Utxo_resume(c, h, arg) ==
    /\ running = 0
    /\ callerPc[c] = "ready"
    /\ h \in Created
    /\ arg.ty = resume_ty
    /\ supplied' = [supplied EXCEPT ![h] = <<arg>>]
    /\ resume_fn(c, h, arg.bytes, size_of_val(arg))
    /\ UNCHANGED <<resume_ty, tokenVars, logic, panicked>>

\* A next that passes the size of the handle instead of the size of ().
Utxo_next_handle_size(c, h) ==
    /\ resume_ty = "Unit"
    /\ running = 0
    /\ callerPc[c] = "ready"
    /\ h \in Created
    /\ supplied' = [supplied EXCEPT ![h] = <<[ty |-> "Unit", bytes |-> <<>>]>>]
    /\ resume_fn(c, h, <<0, 0, 0, 0>>, 4)
    /\ UNCHANGED <<resume_ty, tokenVars, logic, panicked>>

\* Utxo::next(self) where Self: Utxo<Resume = ()>: self.resume(())
Utxo_next(c, h) ==
    /\ resume_ty = "Unit"
    /\ Utxo_resume(c, h, [ty |-> "Unit", bytes |-> <<>>])

\* ------------------------------------------------------------------------
\* Token export environment

Ids == {7, 8}
Amounts == {0, 100}

\* The intermediate struct of the resource type.
Intermediates == [id : Ids, amount : Amounts]

\* #[repr(C)] struct TokenStorage { id: u64, amount: u64 } as it crosses the
\* boundary: the fields in declaration order.
TokenStorage_to_wire_swapped(st) == <<st.amount, st.id>>

TokenStorage_to_wire(st) == <<st.id, st.amount>>

TokenStorage_from_wire(w) == [id |-> w[1], amount |-> w[2]]

\* The check in $mint_body ("Panics if the mint is invalid").
mint_valid(i) == i.amount > 0

\* token_export!: extern "C" fn $mint_fn(self: Intermediate) -> TokenStorage
export_mint(i) == [id |-> i.id, amount |-> i.amount]

\* token_export!: extern "C" fn $burn_fn(storage: TokenStorage) -> Intermediate
\* The "fee" logic deliberately changes the amount; the "plain" one performs
\* no transformation.
export_burn(st) ==
    IF logic = "fee"
    THEN [id |-> st.id, amount |-> st.amount - 1]
    ELSE [id |-> st.id, amount |-> st.amount]

\* ------------------------------------------------------------------------
\* Token import environment

\* $mint_fn(intermediate) -> TokenHandle: the host runs the resource type's
\* mint entry and keeps the storage it returns under a fresh handle.
mint_fn(c, s, i) ==
    IF mint_valid(i)
    THEN /\ tokens' = (nextPtr :> TokenStorage_to_wire(export_mint(i))) @@ tokens
         /\ minted' = (nextPtr :> i) @@ minted
         /\ nextPtr' = nextPtr + 1
         /\ held' = [held EXCEPT ![c][s] = nextPtr]
         /\ lastCall' = Call("mint", nextPtr, "ok", <<>>)
         /\ UNCHANGED <<callerPc, inResume, burns>>
    ELSE /\ abort(c)
         /\ lastCall' = Call("mint", 0, "abort", <<>>)
         /\ UNCHANGED <<tokens, minted, nextPtr, held, burns>>

\* A host that hands out the intermediate but keeps the token live.
burn_fn_keeping(c, ptr) ==
    IF ptr \in DOMAIN tokens
    THEN /\ burns' = [burns EXCEPT ![ptr] = @ + 1]
         /\ lastCall' = Call("burn", ptr, "ok",
                             <<export_burn(TokenStorage_from_wire(tokens[ptr]))>>)
         /\ UNCHANGED <<tokens, callerPc, inResume>>
    ELSE /\ abort(c)
         /\ lastCall' = Call("burn", ptr, "abort", <<>>)
         /\ UNCHANGED <<tokens, burns>>

\* $burn_fn(handle) -> Intermediate: the host takes the token out of its live
\* set and runs the resource type's burn entry on its storage.  A handle
\* that is not live is fatal for the caller.
burn_fn(c, ptr) ==
    IF ptr \in DOMAIN tokens
    THEN /\ tokens' = [p \in DOMAIN tokens \ {ptr} |-> tokens[p]]
         /\ burns' = [burns EXCEPT ![ptr] = @ + 1]
         /\ lastCall' = Call("burn", ptr, "ok",
                             <<export_burn(TokenStorage_from_wire(tokens[ptr]))>>)
         /\ UNCHANGED <<callerPc, inResume>>
    ELSE /\ abort(c)
         /\ lastCall' = Call("burn", ptr, "abort", <<>>)
         /\ UNCHANGED <<tokens, burns>>

\* <$handle_name as Token>::mint(i): Self($mint_fn(i)), the handle bound to
\* variable s of coordination script c.
Token_mint(c, s, i) ==
    /\ running = 0
    /\ callerPc[c] = "ready"
    /\ held[c][s] = 0
    /\ nextPtr <= MaxTokens
    /\ mint_fn(c, s, i)
    /\ UNCHANGED <<unitVars, resume_ty, supplied, logic, panicked>>

\* <$handle_name as Token>::burn(self): $burn_fn(self.0).  The handle is
\* Copy: the variable keeps its value.
Token_burn(c, s) ==
    /\ running = 0
    /\ callerPc[c] = "ready"
    /\ held[c][s] # 0
    /\ burn_fn(c, held[c][s])
    /\ UNCHANGED <<unitVars, resume_ty, supplied, nextPtr, held, minted, logic, panicked>>

\* impl Clone / Copy for TokenHandle: *self, bound to another variable.
TokenHandle_clone(c, s, d) ==
    /\ running = 0
    /\ callerPc[c] = "ready"
    /\ held[c][s] # 0
    /\ held[c][d] = 0
    /\ held' = [held EXCEPT ![c][d] = held[c][s]]
    /\ UNCHANGED <<unitVars, resume_ty, callerVars, lastCall, tokens, nextPtr,
                   minted, burns, logic, panicked>>

\* ------------------------------------------------------------------------
\* Specification

Init ==
    /\ unitStatus = <<>>
    /\ pendingYield = [h \in Handles |-> <<>>]
    /\ unitPc = [h \in Handles |-> "new"]
    /\ frame = [h \in Handles |-> NoFrame]
    /\ resumed = [h \in Handles |-> <<>>]
    /\ suspends = 0
    /\ sleeps = [h \in Handles |-> 0]
    /\ trace = [h \in Handles |-> <<>>]
    /\ running = 0
    /\ resume_ty \in Types
    /\ callerPc = [c \in Callers |-> "ready"]
    /\ inResume = [c \in Callers |-> 0]
    /\ supplied = [h \in Handles |-> <<>>]
    /\ lastCall = NoCall
    /\ tokens = <<>>
    /\ nextPtr = 1
    /\ held = [c \in Callers |-> [s \in Slots |-> 0]]
    /\ minted = <<>>
    /\ burns = [p \in Ptrs |-> 0]
    /\ logic = "plain"
    /\ panicked = {}

InitToken ==
    /\ unitStatus = <<>>
    /\ pendingYield = [h \in Handles |-> <<>>]
    /\ unitPc = [h \in Handles |-> "new"]
    /\ frame = [h \in Handles |-> NoFrame]
    /\ resumed = [h \in Handles |-> <<>>]
    /\ suspends = 0
    /\ sleeps = [h \in Handles |-> 0]
    /\ trace = [h \in Handles |-> <<>>]
    /\ running = 0
    /\ resume_ty = "Unit"
    /\ callerPc = [c \in Callers |-> "ready"]
    /\ inResume = [c \in Callers |-> 0]
    /\ supplied = [h \in Handles |-> <<>>]
    /\ lastCall = NoCall
    /\ tokens = <<>>
    /\ nextPtr = 1
    /\ held = [c \in Callers |-> [s \in Slots |-> 0]]
    /\ minted = <<>>
    /\ burns = [p \in Ptrs |-> 0]
    /\ logic \in {"plain", "fee"}
    /\ panicked = {}

Next ==
    \/ \E h \in Handles : host_start(h)
    \/ \E h \in Handles, R \in Types, Y \in Types : \E data \in ValuesOf(Y) :
            sleep(h, R, Y, data)
    \/ \E h \in Handles, R \in Types, Y \in Types : \E data \in ValuesOf(Y) :
            sleep_mut(h, R, Y, data)
    \/ \E h \in Handles : unit_return(h)
    \/ \E c \in Callers, h \in Handles : Utxo_status(c, h)
    \/ \E c \in Callers, h \in Handles : Utxo_can_resume(c, h)
    \/ \E c \in Callers, h \in Handles : \E arg \in ValuesOf(resume_ty) :
            Utxo_resume(c, h, arg)
    \/ \E c \in Callers, h \in Handles : Utxo_next(c, h)
    \/ \E h \in Handles, abort_returns \in BOOLEAN : panic_in_unit(h, abort_returns)

NextToken ==
    \/ \E c \in Callers, s \in Slots, i \in Intermediates : Token_mint(c, s, i)
    \/ \E c \in Callers, s \in Slots : Token_burn(c, s)
    \/ \E c \in Callers, s \in Slots, d \in Slots : TokenHandle_clone(c, s, d)
    \/ \E c \in Callers, abort_returns \in BOOLEAN : panic_in_script(c, abort_returns)
    \/ \E c \in Callers, key \in PublicKeys : assert_tx_signed_by(c, key)

\* The unit protocol.
Spec == Init /\ [][Next]_vars

\* The token protocol.  The two share no state in the source.
SpecToken == InitToken /\ [][NextToken]_vars

TypeOK ==
    /\ \A h \in Created : unitStatus[h] \in UtxoStatus
    /\ running \in 0..MaxUnits

\* ------------------------------------------------------------------------
\* Properties

HoldersOf(p) == {cs \in Callers \X Slots : held[cs[1]][cs[2]] = p}

\* C1: a resume (through Utxo::resume or Utxo::next) of a handle whose status
\* is Returned is fatal for the calling guest instance: the call is recorded
\* as aborted, the caller is torn down and the unit is not driven forward.
C1_ResumeOfReturnedIsFatal ==
    [][\A c \in Callers, h \in DOMAIN unitStatus : \A arg \in ValuesOf(resume_ty) :
          (unitStatus[h] = Returned /\ (Utxo_resume(c, h, arg) \/ Utxo_next(c, h)))
          => /\ callerPc'[c] = "aborted"
             /\ lastCall' = Call("resume", h, "abort", <<size_of(resume_ty)>>)
             /\ UNCHANGED unitVars]_vars

C1_Witness ==
    /\ lastCall.op = "resume"
    /\ lastCall.out = "abort"
    /\ unitStatus[lastCall.h] = Returned
    /\ unitPc[lastCall.h] = "returned"
    /\ \E c \in Callers : callerPc[c] = "aborted"

C3_ExactlyOneHolder ==
    /\ Cardinality(DOMAIN tokens) <= Cardinality(DOMAIN minted)
    /\ \A p \in DOMAIN tokens : Cardinality(HoldersOf(p)) = 1

\* C4: while a unit is suspended the host holds exactly the size_of::<Yield>()
\* bytes of the value the unit passed to sleep, and when the unit is resumed
\* with a value of the Resume type of that sleep call, sleep returns exactly
\* that value, size_of::<Resume>() bytes long.
C4_SuspensionRoundTrip ==
    \A h \in Handles :
        /\ frame[h] # NoFrame =>
              /\ pendingYield[h] # <<>>
              /\ pendingYield[h][1].data = frame[h][1].data.bytes
              /\ Len(pendingYield[h][1].data) = size_of(frame[h][1].Yield)
        /\ (resumed[h] # <<>> /\ supplied[h] # <<>>
                /\ supplied[h][1].ty = resumed[h][1].ty) =>
              /\ resumed[h][1] = supplied[h][1]
              /\ Len(resumed[h][1].bytes) = size_of(resumed[h][1].ty)

C4_Witness ==
    \E h, g \in Handles :
        /\ resumed[h] # <<>>
        /\ resumed[h] = supplied[h]
        /\ Len(resumed[h][1].bytes) > 0
        /\ frame[g] # NoFrame
        /\ Len(pendingYield[g][1].data) > 0
        /\ pendingYield[g][1].data = frame[g][1].data.bytes

\* C5: with domain logic that performs no transformation, a successful burn
\* returns an intermediate equal to the one the handle was minted from.
C5_MintBurnRoundTrip ==
    (lastCall.op = "burn" /\ lastCall.out = "ok" /\ logic = "plain")
        => lastCall.ret = <<minted[lastCall.h]>>

C5_Witness ==
    /\ lastCall.op = "burn"
    /\ lastCall.out = "ok"
    /\ logic = "plain"
    /\ minted[lastCall.h] = [id |-> 7, amount |-> 100]
    /\ lastCall.ret = <<[id |-> 7, amount |-> 100]>>

\* C6: sleep returns to the unit only with a value that was supplied as the
\* Resume type of that sleep call: a resume value of another type or size is
\* never turned into the value sleep returns.
C6_MismatchedResumeNeverDelivered ==
    \A h \in Handles :
        (resumed[h] # <<>> /\ supplied[h] # <<>>)
            => /\ supplied[h][1].ty = resumed[h][1].ty
               /\ size_of_val(supplied[h][1]) = size_of_val(resumed[h][1])

\* C7: two pending suspend calls that present the same channel name to the
\* host have the same Yield type and the same Resume type, hence the same
\* yield-data size and resume-buffer size.
C7_ChannelFixesTypePair ==
    \A h, g \in Handles :
        (frame[h] # NoFrame /\ frame[g] # NoFrame
            /\ pendingYield[h][1].name = pendingYield[g][1].name)
        => /\ frame[h][1].Yield = frame[g][1].Yield
           /\ frame[h][1].Resume = frame[g][1].Resume
           /\ Len(pendingYield[h][1].data) = Len(pendingYield[g][1].data)
           /\ pendingYield[h][1].resume_arg_size = pendingYield[g][1].resume_arg_size

\* C8: what Utxo::can_resume returned for a handle is TRUE exactly when the
\* host's status of that handle is Yielded.
C8_CanResumeIffYielded ==
    lastCall.op = "can_resume"
        => (lastCall.ret[1] <=> unitStatus[lastCall.h] = Yielded)

C8_Witness ==
    /\ lastCall.op = "can_resume"
    /\ lastCall.ret = <<FALSE>>
    /\ unitStatus[lastCall.h] = Returned
    /\ \E g \in DOMAIN unitStatus : unitStatus[g] = Yielded

\* C9: a status or can_resume call changes no unit, coordination or token
\* state, and a status call that directly follows a status call on the same
\* handle returns the same value.
C9_StatusIsPure ==
    [][\A c \in Callers, h \in DOMAIN unitStatus :
          (Utxo_status(c, h) \/ Utxo_can_resume(c, h))
          => /\ UNCHANGED <<unitVars, callerVars, tokenVars>>
             /\ (lastCall.op = "status" /\ lastCall.h = h /\ Utxo_status(c, h))
                    => lastCall'.ret = lastCall.ret]_vars

C9_Witness ==
    /\ lastCall.op = "status"
    /\ lastCall.ret = <<Yielded>>
    /\ pendingYield[lastCall.h] # <<>>
    /\ frame[lastCall.h] # NoFrame

\* C10: a unit whose status is Returned has status Returned after every step.
C10_ReturnedIsTerminal ==
    [][\A h \in DOMAIN unitStatus :
          unitStatus[h] = Returned
          => (h \in DOMAIN unitStatus' /\ unitStatus'[h] = Returned)]_vars

C10_Witness ==
    /\ lastCall.op = "status"
    /\ lastCall.ret = <<Returned>>
    /\ unitStatus[lastCall.h] = Returned
    /\ suspends > 0

UnitValue == [ty |-> "Unit", bytes |-> <<>>]

\* C12: when the unit type is imported with Resume = (), a step is a next(h)
\* exactly when it is a resume(h, ()): one call of $resume_fn on h with
\* zero-size resume data, with the same resulting unit state.
C12_NextIsResumeOfUnit ==
    [][\A c \in Callers, h \in DOMAIN unitStatus :
          /\ Utxo_next(c, h) =>
                /\ Utxo_resume(c, h, UnitValue)
                /\ lastCall'.op = "resume"
                /\ lastCall'.h = h
                /\ lastCall'.ret = <<0>>
                /\ supplied'[h] = <<UnitValue>>
          /\ (resume_ty = "Unit" /\ Utxo_resume(c, h, UnitValue)) => Utxo_next(c, h)]_vars

C12_Witness ==
    /\ resume_ty = "Unit"
    /\ lastCall = Call("resume", lastCall.h, "started", <<0>>)
    /\ running = lastCall.h
    /\ resumed[lastCall.h] = <<UnitValue>>
    /\ supplied[lastCall.h] = <<UnitValue>>

\* C13: a sleep_mut call presents to the host what sleep presents for the
\* same Yield value: the channel name of Yield, the bytes of the value,
\* size_of::<Yield>() and size_of::<Resume>(); the unit becomes Yielded and
\* blocked in the call, and the step is a step of sleep.
C13_SleepMutIsSleep ==
    [][\A h \in Handles, R \in Types, Y \in Types : \A data \in ValuesOf(Y) :
          sleep_mut(h, R, Y, data) =>
              /\ sleep(h, R, Y, data)
              /\ pendingYield'[h] =
                    <<[name |-> type_name(Y), name_len |-> Len(type_name(Y)),
                       data |-> data.bytes, resume_arg_size |-> size_of(R)]>>
              /\ Len(pendingYield'[h][1].data) = size_of(Y)
              /\ unitStatus'[h] = Yielded
              /\ frame'[h] = <<[Yield |-> Y, Resume |-> R, data |-> data]>>]_vars

C13_Witness ==
    \E h \in Handles :
        /\ frame[h] # NoFrame
        /\ frame[h][1].Yield = "U8"
        /\ frame[h][1].Resume = "I8"
        /\ pendingYield[h][1].name = "u8"
        /\ pendingYield[h][1].data = frame[h][1].data.bytes
        /\ unitStatus[h] = Yielded

StatusTrace(n, returned) ==
    [i \in 1..(n + (IF returned THEN 1 ELSE 0)) |-> IF i <= n THEN Yielded ELSE Returned]

\* C11: a unit that has made n sleep calls has been recorded by the host as
\* Yielded n times, followed by Returned exactly when it has finished; the
\* status the host reports is the last of these (Yielded, Returned for one
\* suspension), and a resume of a unit whose trace ends with Returned is
\* rejected and adds nothing to the trace.
C11_StatusTrace ==
    /\ [](\A h \in Handles :
            /\ trace[h] = StatusTrace(sleeps[h], unitPc[h] = "returned")
            /\ (h \in DOMAIN unitStatus /\ running # h)
                  => unitStatus[h] = trace[h][Len(trace[h])]
            /\ (lastCall.op = "status" /\ lastCall.h = h)
                  => lastCall.ret = <<trace[h][Len(trace[h])]>>)
    /\ [][\A c \in Callers, h \in DOMAIN unitStatus : \A arg \in ValuesOf(resume_ty) :
            (trace[h][Len(trace[h])] = Returned
                /\ (Utxo_resume(c, h, arg) \/ Utxo_next(c, h)))
            => (lastCall'.out = "abort" /\ trace'[h] = trace[h])]_vars

C11_Witness ==
    \E h \in Handles :
        /\ resume_ty = "Unit"
        /\ sleeps[h] = 1
        /\ trace[h] = <<Yielded, Returned>>
        /\ lastCall = Call("resume", h, "abort", <<0>>)

\* C14: a unit blocked in a sleep call has status Yielded, a pending yield
\* and no control; while it stays blocked its own state does not change; it
\* leaves the call only in the step of a $resume_fn call on its handle, and
\* then continues from that call with a value of the call's Resume type.
C14_BlockedWhileYielded ==
    /\ [](\A h \in Handles :
            /\ unitPc[h] = "sleeping" <=> frame[h] # NoFrame
            /\ unitPc[h] = "sleeping" =>
                  /\ h \in DOMAIN unitStatus
                  /\ unitStatus[h] = Yielded
                  /\ pendingYield[h] # <<>>
                  /\ running # h)
    /\ [][\A h \in Handles :
            /\ (unitPc[h] = "sleeping" /\ unitPc'[h] = "sleeping") =>
                  /\ frame'[h] = frame[h]
                  /\ resumed'[h] = resumed[h]
                  /\ sleeps'[h] = sleeps[h]
                  /\ unitStatus'[h] = Yielded
            /\ (unitPc[h] = "sleeping" /\ unitPc'[h] # "sleeping") =>
                  /\ unitPc'[h] = "running"
                  /\ running' = h
                  /\ lastCall'.op = "resume"
                  /\ lastCall'.h = h
                  /\ lastCall'.out = "started"
                  /\ \E c \in Callers : inResume[c] # h /\ inResume'[c] = h
                  /\ resumed'[h] # <<>>
                  /\ resumed'[h][1].ty = frame[h][1].Resume
            /\ (resumed'[h] # resumed[h] /\ resumed'[h] # <<>>) =>
                  /\ unitPc[h] = "sleeping"
                  /\ running = 0]_vars

C14_Witness ==
    \E h, g \in Handles :
        /\ unitPc[h] = "sleeping"
        /\ unitStatus[h] = Yielded
        /\ sleeps[h] = 1
        /\ running = g
        /\ g # h
        /\ resumed[g] # <<>>

\* The coordination scripts with a resume of h in progress.
ResumesOf(h) == {c \in Callers : inResume[c] = h}

\* C15: at most one resume call of a unit handle is in progress at a time;
\* while one is, the unit has control; and a resume of h begins only when no
\* resume of h is in progress and the unit is suspended in a sleep call.
C15_NoReentrancy ==
    /\ [](\A h \in Handles :
            /\ Cardinality(ResumesOf(h)) <= 1
            /\ ResumesOf(h) # {} =>
                  /\ running = h
                  /\ unitPc[h] \in {"running", "looping"})
    /\ [][\A c \in Callers, h \in Handles :
            (inResume[c] # h /\ inResume'[c] = h) =>
                /\ ResumesOf(h) = {}
                /\ running = 0
                /\ unitPc[h] = "sleeping"
                /\ unitStatus[h] = Yielded]_vars

C15_Witness ==
    \E h \in Handles, c \in Callers, d \in Callers :
        /\ c # d
        /\ ResumesOf(h) = {c}
        /\ callerPc[c] = "in_resume"
        /\ callerPc[d] = "ready"
        /\ sleeps[h] = 2
        /\ running = h

\* The positions a guest instance is left in by its panic handler.
Dead == {"aborted", "looping"}

\* C16: a unit whose guest logic panicked is torn down or spins in the panic
\* handler, also when abort returned; the panic itself passes nothing to the
\* host (no yield, no status change, no call result); afterwards the unit
\* never runs guest logic again, never gives control back, and the resume
\* call that was driving it never returns; every call ends as a success or
\* as an abort.
C16_PanicIsFinal ==
    /\ [](\A h \in Handles : <<"unit", h>> \in panicked => unitPc[h] \in Dead)
    /\ [](lastCall.out \in {"none", "ok", "started", "abort"})
    /\ [][/\ panicked' # panicked =>
                UNCHANGED <<unitStatus, pendingYield, trace, frame, sleeps, lastCall>>
          /\ \A h \in Handles :
                <<"unit", h>> \in panicked =>
                    /\ unitPc'[h] = unitPc[h]
                    /\ frame'[h] = frame[h]
                    /\ resumed'[h] = resumed[h]
                    /\ sleeps'[h] = sleeps[h]
                    /\ pendingYield'[h] = pendingYield[h]
                    /\ trace'[h] = trace[h]
                    /\ (h \in DOMAIN unitStatus <=> h \in DOMAIN unitStatus')
                    /\ h \in DOMAIN unitStatus => unitStatus'[h] = unitStatus[h]
          /\ \A h \in Handles : unitPc[h] = "looping" => running' = h
          /\ \A c \in Callers :
                (callerPc[c] = "in_resume" /\ <<"unit", inResume[c]>> \in panicked')
                    => callerPc'[c] \in {"in_resume", "aborted"}]_vars

C16_Witness ==
    \E h \in Handles, c \in Callers :
        /\ <<"unit", h>> \in panicked
        /\ unitPc[h] = "looping"
        /\ h \in DOMAIN unitStatus
        /\ unitStatus[h] = Yielded
        /\ callerPc[c] = "in_resume"
        /\ inResume[c] = h
        /\ \E g \in Handles : unitPc[g] = "aborted"

\* Nothing of unit g changes in the step.
Untouched(g) ==
    /\ g \in DOMAIN unitStatus <=> g \in DOMAIN unitStatus'
    /\ g \in DOMAIN unitStatus => unitStatus'[g] = unitStatus[g]
    /\ pendingYield'[g] = pendingYield[g]
    /\ trace'[g] = trace[g]
    /\ unitPc'[g] = unitPc[g]
    /\ frame'[g] = frame[g]
    /\ resumed'[g] = resumed[g]
    /\ sleeps'[g] = sleeps[g]

\* C17: a resume or next call on handle h, and every step unit h takes while
\* it has control, changes neither the status nor the pending yield nor
\* anything else of a unit other than h; the status trace of a unit grows
\* only in that unit's own steps.
C17_ResumeLeavesOthersUntouched ==
    [][/\ \A c \in Callers, h \in DOMAIN unitStatus : \A arg \in ValuesOf(resume_ty) :
             (Utxo_resume(c, h, arg) \/ Utxo_next(c, h))
                 => \A g \in Handles \ {h} : Untouched(g)
       /\ \A h \in Handles :
             running = h => \A g \in Handles \ {h} : Untouched(g)
       /\ \A g \in Handles : trace'[g] # trace[g] => running = g]_vars

C17_Witness ==
    \E h \in Handles, g \in Handles :
        /\ h < g
        /\ lastCall = Call("resume", h, "started", <<size_of(resume_ty)>>)
        /\ running = h
        /\ sleeps[h] = 1
        /\ sleeps[g] = 1
        /\ unitPc[g] = "sleeping"
        /\ unitStatus[g] = Yielded
        /\ pendingYield[g] # <<>>

\* C18: assert_tx_signed_by can be called by every coordination script that
\* can make a call, for every key; the call ends normally, leaves the caller
\* ready and changes no unit, coordination or token state.
C18_AuthorizationIsNoOp ==
    /\ [](\A c \in Callers, key \in PublicKeys :
            (running = 0 /\ callerPc[c] = "ready")
                => ENABLED assert_tx_signed_by(c, key))
    /\ [][\A c \in Callers, key \in PublicKeys :
            assert_tx_signed_by(c, key) =>
                /\ UNCHANGED <<unitVars, callerVars, tokenVars, panicked>>
                /\ callerPc'[c] = "ready"
                /\ lastCall'.out = "ok"]_vars

C18_Witness ==
    \E c \in Callers, s \in Slots :
        /\ lastCall = Call("assert_tx_signed_by", 0, "ok", <<>>)
        /\ callerPc[c] = "ready"
        /\ held[c][s] # 0
        /\ held[c][s] \in DOMAIN tokens
        /\ \E d \in Callers : callerPc[d] = "aborted"

====
